---- MODULE Spec2Model ----
(***************************************************************************)
(* Job-tracker backend: the Express application (health check, userRoutes, *)
(* jobRoutes), its middleware (authMiddleware, validateZod), the user and  *)
(* job controllers, and the Prisma store they read and write.              *)
(*                                                                         *)
(* Spec     : every request is handled to completion before the next one.  *)
(* SpecRace : the two store calls of updateJob / deleteJob (findFirst,     *)
(*            then update / delete) are separate steps, so that requests   *)
(*            interleave between the ownership check and the mutation.     *)
(***************************************************************************)
EXTENDS Integers, Sequences, FiniteSets, TLC

\* ------------------------------------------------------------------ bounds
MaxUsers == 2      \* users ever created (ids u1..)
MaxJobs == 1       \* jobs ever created (ids j1..)
MaxTime == 1       \* clock ticks (hours)
MaxTokens == 1     \* tokens the clients keep at a time
MaxInFlight == 2   \* concurrent updateJob / deleteJob requests (SpecRace)

\* ------------------------------------------------------- JavaScript values
Undefined == "<undefined>"   \* a missing property / destructured absent key
Null == "<null>"             \* a NULL column

\* obj.name in JavaScript: undefined when the object has no such property
Field(obj, name) == IF name \in DOMAIN obj THEN obj[name] ELSE Undefined

UserIdSeq == <<"u1", "u2", "u3", "u4", "u5">>
JobIdSeq == <<"j1", "j2", "j3", "j4", "j5">>
UserIds == {UserIdSeq[i] : i \in 1..Len(UserIdSeq)}
JobIds == {JobIdSeq[i] : i \in 1..Len(JobIdSeq)}

\* ------------------------------------------------------------ bcrypt, jwt
Salts == {"salt1"}
SaltRounds == 10
\* bcrypt.hash(password, 10): the digest is a function of cost, salt, password
bcryptHash(password, salt) == <<"$2a$", SaltRounds, salt, password>>
\* bcrypt.compare(password, hash): re-hash with the salt stored in the hash
bcryptCompare(password, hash) == bcryptHash(password, hash[3]) = hash

JWT_SECRET == "process.env.JWT_SECRET"
TokenTTL == 1      \* expiresIn: '1h', the clock counts hours
HMAC(payload, key) == <<"HS256", key, payload>>
\* jwt.sign(payload, secret, {expiresIn: '1h'}) at time t
jwtSign(payload, key, t) ==
    LET claims == payload @@ [iat |-> t, exp |-> t + TokenTTL]
    IN  [wellFormed |-> TRUE, payload |-> claims, sig |-> HMAC(claims, key)]
\* jwt.verify(token, secret) at time t: TRUE when it returns the payload
jwtVerifies(token, key, t) ==
    /\ token.wellFormed
    /\ token.sig = HMAC(token.payload, key)
    /\ t < token.payload.exp

\* ------------------------------------------------------------- zod schemas
\* z.enum([...]) of jobSchema.status
JobStatus == {"WISHLIST", "APPLIED", "INTERVIEW", "OFFER", "REJECTEDz"}

Issue(path, message) == [path |-> path, message |-> message]

\* z.string().min(1, msg) on key k of data
StringMin1(data, k, msg) ==
    IF data[k] = Undefined THEN <<Issue(k, "Required")>>
    ELSE IF data[k] = "" THEN <<Issue(k, msg)>>
    ELSE <<>>

\* jobSchema.safeParse(body).error.issues, mapped to {path, message}
jobSchemaIssues(body) ==
    StringMin1(body, "title", "Title is required")
    \o StringMin1(body, "company", "Company is required")
    \o (IF body.status = Undefined THEN <<Issue("status", "Required")>>
        ELSE IF body.status \notin JobStatus
             THEN <<Issue("status", "Invalid enum value")>>
        ELSE <<>>)

\* jobSchema.safeParse(body).data: z.object strips the keys it does not declare
jobSchemaData(body) == [body EXCEPT !.extra = Undefined]

\* userSchema (validation/userSchema.js): email and password required
userSchemaIssues(body) ==
    StringMin1(body, "email", "Email is required")
    \o StringMin1(body, "password", "Password is required")

userSchemaData(body) == body

\* userQuerySchema: page and limit optional strings; a repeated query key
\* (?page=1&page=2) parses to an array and fails z.string()
userQuerySchemaIssues(query) ==
    (IF query.page = "<array>" THEN <<Issue("page", "Expected string")>> ELSE <<>>)
    \o (IF query.limit = "<array>" THEN <<Issue("limit", "Expected string")>> ELSE <<>>)

\* idParamSchema: id a string of length >= 1
idParamSchemaIssues(params) ==
    IF params.id = "" THEN <<Issue("id", "ID is required")>> ELSE <<>>

\* ------------------------------------------------------------ Prisma store
\* A database is [users, jobs, userSeq, jobSeq]: the two tables and the number
\* of ids handed out so far (ids are UUIDs, never reused).
\* A store call returns [ok |-> TRUE, value, db] or [ok |-> FALSE] (it throws).
Throw == [ok |-> FALSE]
Ok(value, db) == [ok |-> TRUE, value |-> value, db |-> db]

\* a where-object against a row: a key whose value is undefined is no filter
Matches(row, where) ==
    \A k \in DOMAIN where : where[k] = Undefined \/ row[k] = where[k]

\* prisma.<model>.findMany({ where })
findMany(table, where) == {row \in table : Matches(row, where)}

\* prisma.<model>.findFirst({ where }) / findUnique: a row, or null (the empty set)
findFirst(table, where) ==
    LET found == findMany(table, where)
    IN  IF found = {} THEN {} ELSE {CHOOSE row \in found : TRUE}

\* an optional column given undefined is stored NULL
Column(v) == IF v = Undefined THEN Null ELSE v

\* prisma.job.create({ data }): userId undefined is accepted only when the
\* column is optional in the schema (env.userIdOptional)
jobCreate(db, data, env) ==
    IF data.userId = Undefined /\ ~env.userIdOptional THEN Throw
    ELSE LET row == [id |-> JobIdSeq[db.jobSeq + 1],
                     title |-> data.title,
                     description |-> Column(data.description),
                     company |-> data.company,
                     status |-> data.status,
                     userId |-> Column(data.userId)]
         IN  Ok(row, [db EXCEPT !.jobs = @ \cup {row}, !.jobSeq = @ + 1])

\* data applied to a row: undefined leaves the column as it is
Patch(row, data) ==
    [k \in DOMAIN row |->
        IF k \in DOMAIN data /\ data[k] # Undefined THEN data[k] ELSE row[k]]

\* prisma.job.update({ where: { id }, data }): throws when no row has the id
jobUpdate(db, id, data) ==
    LET old == findFirst(db.jobs, [id |-> id])
    IN  IF old = {} THEN Throw
        ELSE LET row == Patch(CHOOSE r \in old : TRUE, data)
             IN  Ok(row, [db EXCEPT !.jobs = (@ \ old) \cup {row}])

\* prisma.job.delete({ where: { id } }): throws when no row has the id
JobDeleteLenient(db, id) ==
    Ok(id, [db EXCEPT !.jobs = @ \ findFirst(db.jobs, [id |-> id])])

jobDelete(db, id) ==
    LET old == findFirst(db.jobs, [id |-> id])
    IN  IF old = {} THEN Throw
        ELSE Ok(CHOOSE r \in old : TRUE, [db EXCEPT !.jobs = @ \ old])

\* prisma.user.create({ data }): email is unique
userCreate(db, data) ==
    IF findFirst(db.users, [email |-> data.email]) # {} THEN Throw
    ELSE LET row == [id |-> UserIdSeq[db.userSeq + 1],
                     email |-> data.email,
                     password |-> data.password,
                     name |-> Column(data.name)]
         IN  Ok(row, [db EXCEPT !.users = @ \cup {row}, !.userSeq = @ + 1])

\* prisma.user.update({ where: { id }, data }): throws on a missing id and on
\* an email another row holds
userUpdate(db, id, data) ==
    LET old == findFirst(db.users, [id |-> id])
    IN  IF old = {} THEN Throw
        ELSE LET row == Patch(CHOOSE r \in old : TRUE, data)
             IN  IF \E u \in db.users \ old : u.email = row.email THEN Throw
                 ELSE Ok(row, [db EXCEPT !.users = (@ \ old) \cup {row}])

\* prisma.user.delete({ where: { id } }): throws on a missing id, and when a
\* job row still references the user
userDelete(db, id) ==
    LET old == findFirst(db.users, [id |-> id])
    IN  IF old = {} \/ (\E j \in db.jobs : j.userId = id) THEN Throw
        ELSE Ok(CHOOSE r \in old : TRUE, [db EXCEPT !.users = @ \ old])

\* --------------------------------------------------------------- middleware
\* A middleware returns Send(status, body) (it answered; the chain stops) or
\* NextWith(req) (it called next(); req is the request as it leaves).
Send(status, body) == [sent |-> TRUE, status |-> status, body |-> body]
NextWith(req) == [sent |-> FALSE, req |-> req]

\* authHeader.startsWith('Bearer ')
StartsWithBearer(authHeader) == authHeader.scheme = "Bearer"

AuthMiddlewareNoVerify(req, env) ==
    IF "authorization" \notin DOMAIN req.headers THEN
        Send(401, [error |-> "Unauthorized"])
    ELSE NextWith([user |-> req.headers.authorization.token.payload] @@ req)

authMiddleware(req, env) ==
    IF \/ "authorization" \notin DOMAIN req.headers
       \/ ~StartsWithBearer(req.headers.authorization)
    THEN Send(401, [error |-> "Unauthorized"])
    ELSE LET token == req.headers.authorization.token   \* split(' ')[1]
         IN  IF jwtVerifies(token, JWT_SECRET, env.now)
             THEN NextWith([user |-> token.payload] @@ req)
             ELSE Send(401, [error |-> "Unauthorized"])

\* validateZod(schema): 400 {errors} or req.body = result.data
validateZodJobSchema(req, env) ==
    LET errors == jobSchemaIssues(req.body)
    IN  IF errors # <<>> THEN Send(400, [errors |-> errors])
        ELSE NextWith([req EXCEPT !.body = jobSchemaData(req.body)])

validateZodUserSchema(req, env) ==
    LET errors == userSchemaIssues(req.body)
    IN  IF errors # <<>> THEN Send(400, [errors |-> errors])
        ELSE NextWith([req EXCEPT !.body = userSchemaData(req.body)])

\* validateZodParam(idParamSchema)
validateZodParamId(req, env) ==
    LET errors == idParamSchemaIssues(req.params)
    IN  IF errors # <<>> THEN Send(400, [errors |-> errors]) ELSE NextWith(req)

\* validateZodQuery(userQuerySchema)
validateZodQueryUser(req, env) ==
    LET errors == userQuerySchemaIssues(req.query)
    IN  IF errors # <<>> THEN Send(400, [errors |-> errors]) ELSE NextWith(req)

\* ----------------------------------------------------------------- handlers
\* A handler returns Reply(status, body, db): its one response and the store
\* as it leaves it.
Reply(status, body, db) == [status |-> status, body |-> body, db |-> db]
\* a body that is a JSON array (its elements) or plain text, not a JSON object
Array(rows) == [array |-> rows]
Text(str) == [text |-> str]
Failed(msg, db) == Reply(500, [error |-> msg, details |-> "<error>"], db)

\* createJob
createJob(req, db, env) ==
    LET userId == Field(req.user, "id")
        newJob == jobCreate(db, [title |-> req.body.title,
                                 description |-> req.body.description,
                                 company |-> req.body.company,
                                 status |-> req.body.status,
                                 userId |-> userId], env)
    IN  IF newJob.ok THEN Reply(201, newJob.value, newJob.db)
        ELSE Failed("Failed to create job", db)

\* getJobs
getJobs(req, db, env) ==
    LET userId == Field(req.user, "id")
    IN  Reply(200, Array(findMany(db.jobs, [userId |-> userId])), db)

\* getJobById
getJobById(req, db, env) ==
    LET userId == Field(req.user, "id")
        job == findFirst(db.jobs, [id |-> req.params.id, userId |-> userId])
    IN  IF job = {} THEN Reply(404, [error |-> "Job not found"], db)
        ELSE Reply(200, CHOOSE j \in job : TRUE, db)

\* updateJob, first store call: the ownership check (findFirst)
jobOwnedByCaller(req, db) ==
    findFirst(db.jobs, [id |-> req.params.id,
                        userId |-> Field(req.user, "id")]) # {}

\* updateJob, second store call (prisma.job.update) and the response
updateJobWrite(req, db, env) ==
    LET updatedJob == jobUpdate(db, req.params.id,
                                [title |-> req.body.title,
                                 description |-> req.body.description,
                                 company |-> req.body.company,
                                 status |-> req.body.status])
    IN  IF updatedJob.ok THEN Reply(200, updatedJob.value, updatedJob.db)
        ELSE Failed("Failed to update job", db)

updateJob(req, db, env) ==
    IF ~jobOwnedByCaller(req, db) THEN Reply(404, [error |-> "Job not found"], db)
    ELSE updateJobWrite(req, db, env)

\* deleteJob, second store call (prisma.job.delete) and the response
deleteJobWrite(req, db, env) ==
    LET gone == jobDelete(db, req.params.id)
    IN  IF gone.ok THEN Reply(200, [message |-> "Job deleted"], gone.db)
        ELSE Failed("Failed to delete job", db)

DeleteJobNoCheck(req, db, env) == deleteJobWrite(req, db, env)

deleteJob(req, db, env) ==
    IF ~jobOwnedByCaller(req, db) THEN Reply(404, [error |-> "Job not found"], db)
    ELSE deleteJobWrite(req, db, env)

\* createUser
createUser(req, db, env) ==
    IF req.body.email \in {Undefined, ""} \/ req.body.password \in {Undefined, ""}
    THEN Reply(400, [error |-> "Email and password are required."], db)
    ELSE LET hashedPassword == bcryptHash(req.body.password, env.salt)
             user == userCreate(db, [email |-> req.body.email,
                                     password |-> hashedPassword,
                                     name |-> req.body.name])
         IN  IF user.ok THEN Reply(201, user.value, user.db)
             ELSE Failed("Failed to create user", db)

\* listUsers
listUsers(req, db, env) == Reply(200, Array(db.users), db)

\* updateUser
updateUser(req, db, env) ==
    LET updatedUser == userUpdate(db, req.params.id,
                                  [name |-> req.body.name, email |-> req.body.email])
    IN  IF updatedUser.ok THEN Reply(200, updatedUser.value, updatedUser.db)
        ELSE Failed("Failed to update user", db)

\* deleteUser
deleteUser(req, db, env) ==
    LET gone == userDelete(db, req.params.id)
    IN  IF gone.ok THEN Reply(200, [message |-> "User deleted"], gone.db)
        ELSE Failed("Failed to delete user", db)

\* loginUser: findUnique by email, bcrypt.compare, jwt.sign
LoginUserNoCompare(req, db, env) ==
    LET user == findFirst(db.users, [email |-> req.body.email])
    IN  IF user = {} THEN Reply(401, [error |-> "Invalid credentials"], db)
        ELSE Reply(200, [token |-> jwtSign([userId |-> (CHOOSE u \in user : TRUE).id],
                                           JWT_SECRET, env.now)], db)

loginUser(req, db, env) ==
    IF req.body.email = Undefined THEN Failed("Failed to login", db)
    ELSE LET user == findFirst(db.users, [email |-> req.body.email])
         IN  IF user = {} THEN Reply(401, [error |-> "Invalid credentials"], db)
             ELSE LET u == CHOOSE x \in user : TRUE
                  IN  IF req.body.password = Undefined
                      THEN Failed("Failed to login", db)
                      ELSE IF ~bcryptCompare(req.body.password, u.password)
                      THEN Reply(401, [error |-> "Invalid credentials"], db)
                      ELSE Reply(200, [token |-> jwtSign([userId |-> u.id],
                                                         JWT_SECRET, env.now)], db)

\* GET /protected
protectedRoute(req, db, env) ==
    Reply(200, [message |-> "This is a protected route", user |-> req.user], db)

\* GET /
healthCheck(req, db, env) == Reply(200, Text("API is running"), db)

\* Express's final handler: no route matched
notFound(req, db, env) == Reply(404, Text("Cannot " \o req.method \o " " \o req.path), db)

\* ------------------------------------------------------------------ routing
AUTH == "authMiddleware"
ZOD_JOB == "validateZod(jobSchema)"
ZOD_USER == "validateZod(userSchema)"
ZOD_PARAM == "validateZodParam(idParamSchema)"
ZOD_QUERY == "validateZodQuery(userQuerySchema)"
Validators == {ZOD_JOB, ZOD_USER, ZOD_PARAM, ZOD_QUERY}


\* userRoutes: the chain registered for a method and path, <<>> when none is
userRoutes(method, path) ==
    CASE method = "POST" /\ path = "/users" -> <<ZOD_USER, "createUser">>
      [] method = "GET" /\ path = "/users" -> <<AUTH, ZOD_QUERY, "listUsers">>
      [] method = "PUT" /\ path = "/users/:id" ->
            <<AUTH, ZOD_PARAM, ZOD_USER, "updateUser">>
      [] method = "DELETE" /\ path = "/users/:id" -> <<AUTH, ZOD_PARAM, "deleteUser">>
      [] method = "POST" /\ path = "/login" -> <<"loginUser">>
      [] method = "GET" /\ path = "/protected" -> <<AUTH, "protectedRoute">>
      [] OTHER -> <<>>

\* jobRoutes, below its router.use(authMiddleware)
JobRoutesValidateFirst(method, path) ==
    CASE method = "POST" /\ path = "/jobs" -> <<ZOD_JOB, AUTH, "createJob">>
      [] method = "GET" /\ path = "/jobs" -> <<AUTH, "getJobs">>
      [] method = "GET" /\ path = "/jobs/:id" -> <<AUTH, "getJobById">>
      [] method = "PUT" /\ path = "/jobs/:id" -> <<ZOD_JOB, AUTH, "updateJob">>
      [] method = "DELETE" /\ path = "/jobs/:id" -> <<AUTH, "deleteJob">>
      [] OTHER -> <<AUTH, "notFound">>

JobRoutesUnguarded(method, path) ==
    CASE method = "POST" /\ path = "/jobs" -> <<AUTH, ZOD_JOB, "createJob">>
      [] method = "GET" /\ path = "/jobs" -> <<AUTH, "getJobs">>
      [] method = "GET" /\ path = "/jobs/:id" -> <<AUTH, "getJobById">>
      [] method = "PUT" /\ path = "/jobs/:id" -> <<AUTH, ZOD_JOB, "updateJob">>
      [] method = "DELETE" /\ path = "/jobs/:id" -> <<AUTH, "deleteJob">>
      [] OTHER -> <<"notFound">>

\* jobRoutes: router.use(authMiddleware) runs for every request that reaches
\* the router, matched by a route or not
jobRoutes(method, path) ==
    <<AUTH>> \o
    (CASE method = "POST" /\ path = "/jobs" -> <<ZOD_JOB, "createJob">>
       [] method = "GET" /\ path = "/jobs" -> <<"getJobs">>
       [] method = "GET" /\ path = "/jobs/:id" -> <<"getJobById">>
       [] method = "PUT" /\ path = "/jobs/:id" -> <<ZOD_JOB, "updateJob">>
       [] method = "DELETE" /\ path = "/jobs/:id" -> <<"deleteJob">>
       [] OTHER -> <<"notFound">>)

\* app: app.get('/'), then app.use(userRoutes), then app.use(jobRoutes).
\* The chain of a request: its middleware in order, its handler last.
Route(method, path) ==
    IF method = "GET" /\ path = "/" THEN <<"healthCheck">>
    ELSE IF userRoutes(method, path) # <<>> THEN userRoutes(method, path)
    ELSE jobRoutes(method, path)

RunMiddleware(name, req, env) ==
    CASE name = AUTH -> authMiddleware(req, env)
      [] name = ZOD_JOB -> validateZodJobSchema(req, env)
      [] name = ZOD_USER -> validateZodUserSchema(req, env)
      [] name = ZOD_PARAM -> validateZodParamId(req, env)
      [] name = ZOD_QUERY -> validateZodQueryUser(req, env)

CallHandler(name, req, db, env) ==
    CASE name = "createJob" -> createJob(req, db, env)
      [] name = "getJobs" -> getJobs(req, db, env)
      [] name = "getJobById" -> getJobById(req, db, env)
      [] name = "updateJob" -> updateJob(req, db, env)
      [] name = "deleteJob" -> deleteJob(req, db, env)
      [] name = "createUser" -> createUser(req, db, env)
      [] name = "listUsers" -> listUsers(req, db, env)
      [] name = "updateUser" -> updateUser(req, db, env)
      [] name = "deleteUser" -> deleteUser(req, db, env)
      [] name = "loginUser" -> loginUser(req, db, env)
      [] name = "protectedRoute" -> protectedRoute(req, db, env)
      [] name = "healthCheck" -> healthCheck(req, db, env)
      [] name = "notFound" -> notFound(req, db, env)

\* The middleware of a chain, in order, up to the first that answers:
\* [sent |-> TRUE, status, body, stages] or [sent |-> FALSE, req, stages],
\* stages being the middleware that ran.
RECURSIVE Through(_, _, _, _)
Through(chain, req, env, stages) ==
    IF Len(chain) <= 1 THEN [sent |-> FALSE, req |-> req, stages |-> stages]
    ELSE LET m == RunMiddleware(Head(chain), req, env)
             ran == Append(stages, Head(chain))
         IN  IF m.sent
             THEN [sent |-> TRUE, status |-> m.status, body |-> m.body, stages |-> ran]
             ELSE Through(Tail(chain), m.req, env, ran)

\* app.use(express.json()): a body that is not JSON never reaches a router; the
\* parser's error (status 400) goes to the global error handler
BadJson == [malformed |-> TRUE]
errorHandler(err) == [error |-> err.message, details |-> err.stack]

\* One request through the application: the response, the store afterwards, and
\* what ran (middleware and handler) in order
App(req, db, env) ==
    LET chain == Route(req.method, req.path)
        handler == chain[Len(chain)]
        m == Through(chain, req, env, <<>>)
    IN  IF req.body = BadJson
        THEN [status |-> 400,
              body |-> errorHandler([message |-> "<SyntaxError>", stack |-> "<stack>"]),
              db |-> db, stages |-> <<"errorHandler">>, seen |-> req.body]
        ELSE IF m.sent
        THEN [status |-> m.status, body |-> m.body, db |-> db,
              stages |-> m.stages, seen |-> req.body]
        ELSE LET r == CallHandler(handler, m.req, db, env)
             IN  [status |-> r.status, body |-> r.body, db |-> r.db,
                  stages |-> Append(m.stages, handler), seen |-> m.req.body]

\* -------------------------------------------------------------------- state
VARIABLES
    users,           \* table User
    jobs,            \* table Job
    userSeq,         \* user ids handed out
    jobSeq,          \* job ids handed out
    userIdOptional,  \* schema.prisma: is Job.userId an optional column
    now,             \* the clock, in hours
    tokens,          \* tokens POST /login has issued (what clients hold)
    resp,            \* the last request answered, its response, the store before
    creator,         \* job id -> user id claim of the token that created it
    plain,           \* user id -> the password POST /users was given for it
    inflight         \* SpecRace: updateJob / deleteJob requests between their
                     \* two store calls, slot -> request record

vars == <<users, jobs, userSeq, jobSeq, userIdOptional, now, tokens, resp,
          creator, plain, inflight>>

DB == [users |-> users, jobs |-> jobs, userSeq |-> userSeq, jobSeq |-> jobSeq]
Env(salt) == [now |-> now, salt |-> salt, userIdOptional |-> userIdOptional]

Slots == 1..MaxInFlight
Idle == [pc |-> "idle"]

\* ------------------------------------------------------------------- inputs
Emails == {"a@x.com", "b@x.com"}
Passwords == {"pw123456", "hunter2"}

UserBody(email, password) == [email |-> email, password |-> password, name |-> Undefined]
LoginBodies == {UserBody(e, p) : e \in Emails \cup {Undefined},
                                 p \in Passwords \cup {Undefined}}
SignupBodies == {UserBody("a@x.com", "pw123456"), UserBody("b@x.com", "hunter2"),
                 UserBody("a@x.com", Undefined), UserBody(Undefined, "hunter2"),
                 UserBody("", "hunter2")}
ProfileBodies == {UserBody("a@x.com", "pw123456"), UserBody("b@x.com", "hunter2"),
                  UserBody(Undefined, "hunter2")}

JobBody(title, company, status, extra) ==
    [title |-> title, company |-> company, status |-> status,
     description |-> Undefined, extra |-> extra]
NoBody == JobBody(Undefined, Undefined, Undefined, Undefined)
JobBodies ==
    { JobBody("Eng", "Acme", "WISHLIST", Undefined),
      JobBody("Dev", "Acme", "REJECTEDz", "x"),
      JobBody("Eng", "Acme", "REJECTED", Undefined),
      JobBody(Undefined, "Acme", "WISHLIST", Undefined),
      JobBody("Eng", Undefined, "WISHLIST", Undefined),
      JobBody("", "Acme", "WISHLIST", Undefined),
      NoBody }

NoQuery == [page |-> Undefined, limit |-> Undefined]
Queries == {NoQuery, [page |-> "1", limit |-> Undefined],
            [page |-> "<array>", limit |-> Undefined]}

\* Authorization headers a client can send: none, another scheme, a token that
\* does not parse, a token signed with another key, a token whose payload was
\* edited after signing, and the tokens POST /login issued (expired or not)
Malformed == [wellFormed |-> FALSE, payload |-> [exp |-> 0], sig |-> "x"]
Forged(t) == [t EXCEPT !.sig = HMAC(t.payload, "another key")]
Tampered(t) == [t EXCEPT !.payload.userId = IF @ = "u1" THEN "u2" ELSE "u1"]
NoAuth == [host |-> "localhost"]
WithAuth(scheme, t) == [host |-> "localhost",
                        authorization |-> [scheme |-> scheme, token |-> t]]
BadHeaders ==
    {NoAuth, WithAuth("Bearer", Malformed)}
    \cup {WithAuth("Basic", t) : t \in tokens}
    \cup {WithAuth("Bearer", Forged(t)) : t \in tokens}
    \cup {WithAuth("Bearer", Tampered(t)) : t \in tokens}
Headers == BadHeaders \cup {WithAuth("Bearer", t) : t \in tokens}

Request(method, path, id, headers, body, query) ==
    [method |-> method, path |-> path, params |-> [id |-> id],
     headers |-> headers, body |-> body, query |-> query]

\* ids a client may name: every id handed out, and one that never was
JobIdParams == {JobIdSeq[i] : i \in 1..jobSeq} \cup {"j-none"}
UserIdParams == {UserIdSeq[i] : i \in 1..userSeq} \cup {"u-none"}

\* --------------------------------------------------------------------- Init
NoResponse ==
    [req |-> Request("", "", "", NoAuth, NoBody, NoQuery), status |-> 0,
     body |-> Text(""),
     stages |-> <<>>, seen |-> NoBody,
     pre |-> [users |-> {}, jobs |-> {}, userSeq |-> 0, jobSeq |-> 0]]

Init ==
    /\ users = {}
    /\ jobs = {}
    /\ userSeq = 0
    /\ jobSeq = 0
    /\ userIdOptional \in BOOLEAN
    /\ now = 0
    /\ tokens = {}
    /\ resp = NoResponse
    /\ creator = [j \in {} |-> Undefined]
    /\ plain = [u \in {} |-> Undefined]
    /\ inflight = [s \in Slots |-> Idle]

\* ------------------------------------------------------------------ actions
\* The request is answered: the store and the record of the exchange
Answered(req, out) ==
    /\ resp.status = 0
    /\ users' = out.db.users
    /\ jobs' = out.db.jobs
    /\ userSeq' = out.db.userSeq
    /\ jobSeq' = out.db.jobSeq
    /\ resp' = [req |-> req, status |-> out.status, body |-> out.body,
                stages |-> out.stages, seen |-> out.seen, pre |-> DB]

\* the user id claim of the token a request carries
Claim(req) == req.headers.authorization.token.payload.userId

\* POST /users
PostUsers ==
    \E body \in SignupBodies, salt \in Salts :
        LET req == Request("POST", "/users", "", NoAuth, body, NoQuery)
            out == App(req, DB, Env(salt))
        IN  /\ userSeq < MaxUsers
            /\ Answered(req, out)
            /\ plain' = IF out.status = 201
                        THEN (out.body.id :> body.password) @@ plain
                        ELSE plain
            /\ UNCHANGED <<userIdOptional, now, tokens, creator, inflight>>

\* what the clients keep of ts when a new token arrives: all of it while there
\* is room, else all but one
Kept(ts) == IF Cardinality(ts) < MaxTokens THEN {ts} ELSE {ts \ {t} : t \in ts}

\* POST /login; the client keeps the token of a 200
PostLogin ==
    \E body \in LoginBodies, keep \in Kept(tokens) :
        LET req == Request("POST", "/login", "", NoAuth, body, NoQuery)
            out == App(req, DB, Env("salt1"))
        IN  /\ Answered(req, out)
            /\ tokens' = IF out.status = 200 THEN keep \cup {out.body.token}
                          ELSE tokens
            /\ UNCHANGED <<userIdOptional, now, creator, plain, inflight>>

\* GET /users
GetUsers ==
    \E h \in Headers, q \in Queries :
        LET req == Request("GET", "/users", "", h, NoBody, q)
        IN  /\ Answered(req, App(req, DB, Env("salt1")))
            /\ UNCHANGED <<userIdOptional, now, tokens, creator, plain, inflight>>

\* PUT /users/:id
PutUser ==
    \E h \in Headers, id \in UserIdParams, body \in ProfileBodies :
        LET req == Request("PUT", "/users/:id", id, h, body, NoQuery)
        IN  /\ Answered(req, App(req, DB, Env("salt1")))
            /\ UNCHANGED <<userIdOptional, now, tokens, creator, plain, inflight>>

\* DELETE /users/:id
DeleteUser ==
    \E h \in Headers, id \in UserIdParams :
        LET req == Request("DELETE", "/users/:id", id, h, NoBody, NoQuery)
        IN  /\ Answered(req, App(req, DB, Env("salt1")))
            /\ UNCHANGED <<userIdOptional, now, tokens, creator, plain, inflight>>

\* POST /jobs; creator records whose token the created job came from
PostJobsWith(hs, bodies) ==
    \E h \in hs, body \in bodies :
        LET req == Request("POST", "/jobs", "", h, body, NoQuery)
            out == App(req, DB, Env("salt1"))
        IN  /\ jobSeq < MaxJobs
            /\ Answered(req, out)
            /\ creator' = IF out.status = 201
                          THEN (out.body.id :> Claim(req)) @@ creator
                          ELSE creator
            /\ UNCHANGED <<userIdOptional, now, tokens, plain, inflight>>

PostJobs == PostJobsWith(Headers, JobBodies)

\* GET /jobs
GetJobs ==
    \E h \in Headers :
        LET req == Request("GET", "/jobs", "", h, NoBody, NoQuery)
        IN  /\ Answered(req, App(req, DB, Env("salt1")))
            /\ UNCHANGED <<userIdOptional, now, tokens, creator, plain, inflight>>

\* GET /jobs/:id
GetJob ==
    \E h \in Headers, id \in JobIdParams :
        LET req == Request("GET", "/jobs/:id", id, h, NoBody, NoQuery)
        IN  /\ Answered(req, App(req, DB, Env("salt1")))
            /\ UNCHANGED <<userIdOptional, now, tokens, creator, plain, inflight>>

\* PUT /jobs/:id
PutJob ==
    \E h \in Headers, id \in JobIdParams, body \in JobBodies :
        LET req == Request("PUT", "/jobs/:id", id, h, body, NoQuery)
        IN  /\ Answered(req, App(req, DB, Env("salt1")))
            /\ UNCHANGED <<userIdOptional, now, tokens, creator, plain, inflight>>

\* DELETE /jobs/:id
DeleteJob ==
    \E h \in Headers, id \in JobIdParams :
        LET req == Request("DELETE", "/jobs/:id", id, h, NoBody, NoQuery)
        IN  /\ Answered(req, App(req, DB, Env("salt1")))
            /\ UNCHANGED <<userIdOptional, now, tokens, creator, plain, inflight>>

\* GET /, GET /protected, and every method and path no route is registered for
Others == {<<"GET", "/">>, <<"GET", "/protected">>, <<"POST", "/">>,
           <<"GET", "/login">>, <<"DELETE", "/users">>, <<"POST", "/jobs/:id">>,
           <<"PUT", "/jobs">>, <<"GET", "/other">>}
OtherRequest ==
    \E h \in Headers, mp \in Others :
        LET req == Request(mp[1], mp[2], "j-none", h, NoBody, NoQuery)
        IN  /\ Answered(req, App(req, DB, Env("salt1")))
            /\ UNCHANGED <<userIdOptional, now, tokens, creator, plain, inflight>>

\* a request whose body is not JSON
UnparsableBody ==
    \E h \in Headers,
       mp \in {<<"POST", "/users">>, <<"POST", "/login">>, <<"POST", "/jobs">>,
               <<"GET", "/">>} :
        LET req == Request(mp[1], mp[2], "", h, BadJson, NoQuery)
        IN  /\ Answered(req, App(req, DB, Env("salt1")))
            /\ UNCHANGED <<userIdOptional, now, tokens, creator, plain, inflight>>

\* an hour passes
Tick ==
    /\ resp.status = 0
    /\ now < MaxTime
    /\ now' = now + 1
    /\ UNCHANGED <<users, jobs, userSeq, jobSeq, userIdOptional, tokens, resp,
                   creator, plain, inflight>>

\* the response has gone out; the exchange is over
Deliver ==
    /\ resp.status # 0
    /\ resp' = NoResponse
    /\ UNCHANGED <<users, jobs, userSeq, jobSeq, userIdOptional, now, tokens,
                   creator, plain, inflight>>

Next ==
    \/ PostUsers
    \/ PostLogin
    \/ GetUsers
    \/ PutUser
    \/ DeleteUser
    \/ PostJobs
    \/ GetJobs
    \/ GetJob
    \/ PutJob
    \/ DeleteJob
    \/ OtherRequest
    \/ UnparsableBody
    \/ Tick
    \/ Deliver

Spec == Init /\ [][Next]_vars

\* ------------------------------------------------- interleaved job requests
\* updateJob and deleteJob await twice: findFirst (the ownership check), then
\* update / delete.  A slot holds a request between the two calls; other
\* requests run in between.  atCheck / atWrite record whether a row with the
\* id was in the table when each call ran; sent counts the responses.
RaceBodies == {JobBody("Eng", "Acme", "WISHLIST", Undefined),
               JobBody("Dev", "Acme", "REJECTEDz", "x"),
               NoBody}

Done(s, req, status, body, atCheck, atWrite) ==
    [pc |-> "done", req |-> req, status |-> status, body |-> body,
     atCheck |-> atCheck, atWrite |-> atWrite, sent |-> 1]

HasJob(id) == \E j \in jobs : j.id = id

\* the request up to and including the handler's first store call
Begin(s, req, op) ==
    LET chain == Route(req.method, req.path)
        m == Through(chain, req, Env("salt1"), <<>>)
    IN  /\ resp.status = 0
        /\ inflight[s].pc = "idle"
        /\ chain[Len(chain)] = op
        /\ IF m.sent
           THEN inflight' = [inflight EXCEPT ![s] =
                    Done(s, req, m.status, m.body, FALSE, FALSE)]
           ELSE IF ~jobOwnedByCaller(m.req, DB)
           THEN inflight' = [inflight EXCEPT ![s] =
                    Done(s, req, 404, [error |-> "Job not found"],
                         HasJob(req.params.id), FALSE)]
           ELSE inflight' = [inflight EXCEPT ![s] =
                    [pc |-> "write", req |-> m.req, atCheck |-> TRUE, sent |-> 0]]
        /\ UNCHANGED <<users, jobs, userSeq, jobSeq, userIdOptional, now, tokens,
                       resp, creator, plain>>

\* the handler's second store call and its response
Finish(s, op, out) ==
    /\ resp.status = 0
    /\ inflight[s].pc = "write"
    /\ Route(inflight[s].req.method, inflight[s].req.path)[
           Len(Route(inflight[s].req.method, inflight[s].req.path))] = op
    /\ jobs' = out.db.jobs
    /\ inflight' = [inflight EXCEPT ![s] =
            Done(s, inflight[s].req, out.status, out.body, TRUE,
                 HasJob(inflight[s].req.params.id))]
    /\ UNCHANGED <<users, userSeq, jobSeq, userIdOptional, now, tokens, resp,
                   creator, plain>>

\* the racing requests are the owner's: they name a job that was created and
\* carry a token of the user who created it
OwnerHeaders(id) ==
    {WithAuth("Bearer", t) : t \in {x \in tokens : x.payload.userId = creator[id]}}

BeginUpdate ==
    \E s \in Slots, id \in DOMAIN creator, body \in RaceBodies :
      \E h \in OwnerHeaders(id) :
        Begin(s, Request("PUT", "/jobs/:id", id, h, body, NoQuery), "updateJob")

FinishUpdate ==
    \E s \in Slots :
        /\ inflight[s].pc = "write"
        /\ Finish(s, "updateJob", updateJobWrite(inflight[s].req, DB, Env("salt1")))

BeginDelete ==
    \E s \in Slots, id \in DOMAIN creator :
      \E h \in OwnerHeaders(id) :
        Begin(s, Request("DELETE", "/jobs/:id", id, h, NoBody, NoQuery), "deleteJob")

FinishDelete ==
    \E s \in Slots :
        /\ inflight[s].pc = "write"
        /\ Finish(s, "deleteJob", deleteJobWrite(inflight[s].req, DB, Env("salt1")))

NextRace ==
    \/ PostUsers
    \/ PostLogin
    \/ PostJobsWith({h \in Headers : h \notin BadHeaders}, RaceBodies)
    \/ Deliver
    \/ BeginUpdate
    \/ FinishUpdate
    \/ BeginDelete
    \/ FinishDelete

SpecRace == Init /\ [][NextRace]_vars

\* ------------------------------------------------- the exchange on record
Answering == resp.status # 0
Is(method, path) == resp.req.method = method /\ resp.req.path = path
OnJob == resp.req.path = "/jobs/:id" /\ resp.req.method \in {"GET", "PUT", "DELETE"}
Stage(name) == \E i \in 1..Len(resp.stages) : resp.stages[i] = name
Handlers == {"createJob", "getJobs", "getJobById", "updateJob", "deleteJob",
             "createUser", "listUsers", "updateUser", "deleteUser", "loginUser",
             "protectedRoute", "healthCheck", "notFound"}
HandlerInvoked == \E i \in 1..Len(resp.stages) : resp.stages[i] \in Handlers
StoreUnchanged == DB = resp.pre
IdsOf(table) == {row.id : row \in table}

\* the request carries, as a Bearer token, a token POST /login issued
HasIssuedToken(req) ==
    /\ "authorization" \in DOMAIN req.headers
    /\ req.headers.authorization.scheme = "Bearer"
    /\ req.headers.authorization.token \in tokens
\* ... and it has not expired
ValidToken(req) ==
    /\ HasIssuedToken(req)
    /\ now < req.headers.authorization.token.payload.exp

\* express.json() accepted the body: the request reaches the routers
Parsed(req) == req.body # BadJson

JobBodyValid(req) == Parsed(req) /\ jobSchemaIssues(req.body) = <<>>

\* C1: a GET, PUT (valid body) or DELETE of /jobs/:id by a user other than the
\* one whose token created the job is answered 404 with the body an id that
\* matches no job gets, and the job stays as it was.
C1_OtherUsersJobIs404 ==
    ( /\ Answering
      /\ OnJob
      /\ ValidToken(resp.req)
      /\ JobBodyValid(resp.req) \/ resp.req.method # "PUT"
      /\ resp.req.params.id \in IdsOf(resp.pre.jobs)
      /\ creator[resp.req.params.id] # Claim(resp.req) )
    => /\ resp.status = 404
       /\ resp.body = App([resp.req EXCEPT !.params.id = "j-none"],
                          resp.pre, Env("salt1")).body
       /\ jobs = resp.pre.jobs

\* C2: GET /jobs with a token issued for user A answers 200 with exactly the
\* stored jobs that A's token created.
C2_ListIsTheCallersJobs ==
    (Answering /\ Is("GET", "/jobs") /\ ValidToken(resp.req))
    => /\ resp.status = 200
       /\ resp.body = Array({j \in jobs : creator[j.id] = Claim(resp.req)})

\* C3: POST /jobs with a login token and a valid body answers 201 with the
\* token's user id as the job's owner id, and every stored job's owner id is
\* the user id of the token that created it.
C3_OwnerIsTheCreator ==
    /\ (Answering /\ Is("POST", "/jobs") /\ ValidToken(resp.req)
            /\ JobBodyValid(resp.req))
       => (resp.status = 201 /\ resp.body.userId = Claim(resp.req))
    /\ \A j \in jobs : j.userId = creator[j.id]

\* C4: a request that reaches the Auth Gate without an Authorization header,
\* with another scheme, or with a token that is not an unexpired token of
\* POST /login, is answered 401 {error: "Unauthorized"} by the gate; no handler
\* runs and the store is as before.
C4_GateRejects ==
    (Answering /\ Stage(AUTH) /\ ~ValidToken(resp.req))
    => /\ resp.status = 401
       /\ resp.body = [error |-> "Unauthorized"]
       /\ resp.stages[Len(resp.stages)] = AUTH
       /\ ~HandlerInvoked
       /\ StoreUnchanged

C4_ExpiredTokenRejected ==
    /\ Answering
    /\ Stage(AUTH)
    /\ HasIssuedToken(resp.req)
    /\ ~ValidToken(resp.req)
    /\ resp.status = 401

\* C5 as stated: every method and path but POST /users and POST /login needs a
\* valid token (401 and no handler without one), and those two are never
\* stopped by the Auth Gate.  (Requests whose body is not JSON are left out:
\* they are answered before any router.)
Gated(open) ==
    (Answering /\ Parsed(resp.req)) =>
        IF <<resp.req.method, resp.req.path>> \in open
        THEN ~Stage(AUTH)
        ELSE ~ValidToken(resp.req) => (resp.status = 401 /\ ~HandlerInvoked)

C5_AllButSignupAndLoginGated ==
    Gated({<<"POST", "/users">>, <<"POST", "/login">>})

\* C5 amended: of the GET, POST, PUT and DELETE requests that reach the
\* routers, every method and path but POST /users, POST /login and the health
\* check GET / needs a valid token (401 and no handler without one, registered
\* route or not), and those three are never stopped by the Auth Gate.
C5_AllButSignupLoginHealthGated ==
    Gated({<<"POST", "/users">>, <<"POST", "/login">>, <<"GET", "/">>})

C5_UnregisteredPathRejected ==
    Answering /\ Is("GET", "/other") /\ ~ValidToken(resp.req) /\ resp.status = 401

\* routes that declare both validation and authentication, and whether the
\* request fails the validation its route declares
ValidatedAndGated ==
    {<<"POST", "/jobs">>, <<"PUT", "/jobs/:id">>, <<"GET", "/users">>,
     <<"PUT", "/users/:id">>, <<"DELETE", "/users/:id">>}
InputInvalid(req) ==
    CASE req.path \in {"/jobs", "/jobs/:id"} -> jobSchemaIssues(req.body) # <<>>
      [] req.path = "/users" -> userQuerySchemaIssues(req.query) # <<>>
      [] req.method = "PUT" -> idParamSchemaIssues(req.params) # <<>>
                               \/ userSchemaIssues(req.body) # <<>>
      [] OTHER -> idParamSchemaIssues(req.params) # <<>>
OnValidatedAndGated ==
    /\ Answering
    /\ Parsed(resp.req)
    /\ <<resp.req.method, resp.req.path>> \in ValidatedAndGated

\* C6 as stated: on those routes the Schema Validator runs before the Auth
\* Gate, so a request failing both is answered 400 with the error list.
C6_ValidatorBeforeGate ==
    OnValidatedAndGated
    => /\ \A i, j \in 1..Len(resp.stages) :
            (resp.stages[i] \in Validators /\ resp.stages[j] = AUTH) => i < j
       /\ (~ValidToken(resp.req) /\ InputInvalid(resp.req)) => resp.status = 400

\* C6 amended: on those routes the Auth Gate runs first, the Schema Validators
\* after it, and the handler only after both passed; a request failing both is
\* answered 401, and one failing only validation 400 with the error list.
C6_GateBeforeValidator ==
    OnValidatedAndGated
    => /\ resp.stages[1] = AUTH
       /\ \A i \in 1..Len(resp.stages) : resp.stages[i] \in Validators => i > 1
       /\ HandlerInvoked => (ValidToken(resp.req) /\ ~InputInvalid(resp.req))
       /\ (~ValidToken(resp.req) /\ InputInvalid(resp.req)) => resp.status = 401
       /\ (ValidToken(resp.req) /\ InputInvalid(resp.req))
            => (resp.status = 400 /\ Len(resp.body.errors) > 0)

C6_FailsBothGets401 ==
    /\ OnValidatedAndGated
    /\ ~ValidToken(resp.req)
    /\ InputInvalid(resp.req)
    /\ resp.status = 401

\* the job status enum of the data model
IntendedStatus == {"WISHLIST", "APPLIED", "INTERVIEW", "OFFER", "REJECTED"}
Offending(body) ==
    {f \in {"title", "company"} : body[f] = Undefined}
    \cup (IF body.status # Undefined /\ body.status \notin IntendedStatus
          THEN {"status"} ELSE {})

\* C7: an authenticated POST /jobs or PUT /jobs/:id whose body lacks title or
\* company, or carries a status outside the enum, is answered 400 {errors}
\* with an entry for each offending field; no handler runs and no job is
\* created or modified.  When validation passes the handler sees the parsed
\* body.
C7_BadJobBodyIs400 ==
    (Answering /\ (Is("POST", "/jobs") \/ Is("PUT", "/jobs/:id"))
        /\ Parsed(resp.req) /\ ValidToken(resp.req))
    => /\ Offending(resp.req.body) # {}
          => /\ resp.status = 400
             /\ \A f \in Offending(resp.req.body) :
                    \E i \in 1..Len(resp.body.errors) : resp.body.errors[i].path = f
             /\ ~HandlerInvoked
             /\ jobs = resp.pre.jobs
       /\ HandlerInvoked => resp.seen = jobSchemaData(resp.req.body)

\* C8: the owner's DELETE of a stored job answers 200 {message} and removes
\* it; once it is removed, the owner's DELETE, GET and PUT of that id answer
\* 404.
ByOwner ==
    /\ Answering
    /\ OnJob
    /\ ValidToken(resp.req)
    /\ JobBodyValid(resp.req) \/ resp.req.method # "PUT"
    /\ resp.req.params.id \in DOMAIN creator
    /\ creator[resp.req.params.id] = Claim(resp.req)

C8_SecondDeleteIs404 ==
    ByOwner
    => IF resp.req.params.id \in IdsOf(resp.pre.jobs)
       THEN resp.req.method = "DELETE"
            => /\ resp.status = 200
               /\ resp.body = [message |-> "Job deleted"]
               /\ resp.req.params.id \notin IdsOf(jobs)
       ELSE resp.status = 404

C8_DeletedTwice ==
    /\ ByOwner
    /\ resp.req.method = "DELETE"
    /\ resp.req.params.id \notin IdsOf(resp.pre.jobs)
    /\ resp.status = 404

\* C9: POST /login answers 200 with a token for the user exactly when a user
\* with the email is stored and the password is the one that user signed up
\* with; otherwise, given an email and a password, 401 {error: 'Invalid
\* credentials'}; it never changes the store; and right after a 201 from
\* POST /users the same email and password log in.
Matching(body, table) ==
    {u \in table : u.email = body.email /\ plain[u.id] = body.password}

C9_LoginIffCredentialsMatch ==
    /\ (Answering /\ Is("POST", "/login") /\ Parsed(resp.req))
       => /\ resp.status = 200 <=> Matching(resp.req.body, resp.pre.users) # {}
          /\ resp.status = 200
             => /\ jwtVerifies(resp.body.token, JWT_SECRET, now)
                /\ \E u \in Matching(resp.req.body, resp.pre.users) :
                        resp.body.token.payload.userId = u.id
          /\ ( /\ resp.status # 200
               /\ resp.req.body.email # Undefined
               /\ resp.req.body.password # Undefined )
             => (resp.status = 401 /\ resp.body = [error |-> "Invalid credentials"])
          /\ StoreUnchanged
    /\ (Answering /\ Is("POST", "/users") /\ resp.status = 201)
       => App(Request("POST", "/login", "", NoAuth, resp.req.body, NoQuery),
              DB, Env("salt1")).status = 200

C9_LoggedIn == Answering /\ Is("POST", "/login") /\ resp.status = 200

\* C10: of the owner's concurrent DELETEs of one job at most one answers 200;
\* a DELETE answers 404 when the job was gone at its check, 500 when it was
\* there at its check and gone at its delete; every request gets one response
\* and the job is gone once a DELETE is answered.  A PUT whose write runs
\* after the delete answers 500.
Answered200(id) ==
    {s \in Slots : /\ inflight[s].pc = "done"
                   /\ inflight[s].req.method = "DELETE"
                   /\ inflight[s].req.params.id = id
                   /\ inflight[s].status = 200}

C10_AtMostOneDeleteSucceeds ==
    /\ \A id \in DOMAIN creator : Cardinality(Answered200(id)) <= 1
    /\ \A s \in Slots :
        /\ inflight[s].pc = "write" => inflight[s].sent = 0
        /\ inflight[s].pc = "done" =>
            LET r == inflight[s]
            IN  /\ r.sent = 1
                /\ r.req.method = "DELETE"
                   => /\ r.status = 404 <=> ~r.atCheck
                      /\ r.status = 500 <=> (r.atCheck /\ ~r.atWrite)
                      /\ r.status = 200 <=> (r.atCheck /\ r.atWrite)
                      /\ ~HasJob(r.req.params.id)
                /\ (r.req.method = "PUT" /\ r.atCheck /\ ~r.atWrite)
                   => r.status = 500

C10_BothPassedTheCheck ==
    \E s, t \in Slots :
        /\ inflight[s].pc = "done" /\ inflight[t].pc = "done"
        /\ inflight[s].req.method = "DELETE" /\ inflight[t].req.method = "DELETE"
        /\ inflight[s].req.params.id = inflight[t].req.params.id
        /\ inflight[s].status = 200
        /\ inflight[t].status = 500

====
